---------------------------- MODULE Spec2Model ----------------------------
(***************************************************************************)
(* Model of the OmniVault encrypted store (package store: EncryptedStore   *)
(* and Crypto) and of the daemon that owns it (package daemon: Server).    *)
(*                                                                         *)
(* The store operations are operators from a store state to a result       *)
(* [st, err, val]: the state after the call, the error returned and the    *)
(* value returned.  The store's own mutex makes every store operation      *)
(* atomic with respect to the others, so one operator application is one   *)
(* call.  Specification Spec drives the store through its Go API;          *)
(* specification SpecDaemon drives it through the daemon's HTTP handlers,  *)
(* the auto-lock timer and graceful shutdown.                              *)
(***************************************************************************)
EXTENDS Integers, Sequences, FiniteSets, TLC

VARIABLES store,    \* the EncryptedStore object and the two files it owns,
                    \* with the random source and the clock its calls read
          last,     \* the last completed call or request and its result
          mu,       \* Server.mu: [writer, readers]
          timer,    \* Server.autoLockTimer: a timer id; 0 when it is nil or
                    \* points to a timer that was stopped or has run
          timers,   \* every time.AfterFunc timer: id -> state
          handlers, \* the HTTP handler goroutines: id -> [pc, kind]
          shutdown, \* the position of Server.Shutdown
          acked     \* per path, the last PUT or DELETE the daemon's clients
                    \* know the outcome of

vars == <<store, last, mu, timer, timers, handlers, shutdown, acked>>

-----------------------------------------------------------------------------
(* Bounds of the model.                                                    *)

\* Number of random salts NewCrypto may draw in one run.
MaxSalts == 2

\* Number of time.AfterFunc timers that may exist at once.
MaxTimers == 2

\* The goroutines that serve HTTP requests concurrently.
Handlers == {1, 2}

\* Number of clock ticks in one run.
MaxTime == 3

\* Clock ticks in one second, the resolution of a timestamp in JSON.
TicksPerSecond == 2

Passwords == {"password1", "password2"}

\* Secret paths are byte strings, modelled as sequences of small numbers.
Paths == {<<1>>, <<1, 2>>}

Prefixes == {<<>>, <<1>>, <<1, 2>>, <<2>>}

\* A nil *Timestamp.
NoTime == -1

\* Values of the maps Secret.Fields and Metadata.Tags: nil, empty, or some
\* entries.
NilMap == "nil"

EmptyMap == "empty"

Maps == {NilMap, EmptyMap, "k=x"}

\* A vault.Secret: value, fields, tags and the two timestamps of Metadata.
NewSecret(value) ==
    [value |-> value, fields |-> NilMap, tags |-> NilMap,
     createdAt |-> NoTime, modifiedAt |-> NoTime]

\* setSecret: the vault.Secret built from a SetSecretRequest.
SecretOf(req) ==
    [value |-> req.value, fields |-> req.fields, tags |-> req.tags,
     createdAt |-> NoTime, modifiedAt |-> NoTime]

\* The zero vault.Secret, returned with an error.
NoSecret == NewSecret("")

\* The secrets the callers of Set pass.
Values == {NewSecret("v1"), NewSecret("v2")}

\* The paths and secrets the daemon's clients send.
DaemonPaths == {<<1>>}

DaemonValues == {[value |-> "v1", fields |-> NilMap, tags |-> NilMap]}

\* The password the daemon's clients create the vault with; they try every
\* password of Passwords to unlock it.
InitPasswords == {"password1"}

\* len(req.Password) < 8 is refused by handleInit.
MinPasswordLength == 8

\* The passwords of POST /init requests: those of InitPasswords and one that
\* is too short.
InitRequests == InitPasswords \cup {"short"}

\* What a write of a file can do: succeed, fail leaving the file as it was
\* (the open or the MkdirAll fails), or fail after the file was truncated.
WriteOutcomes == {"ok", "fail", "torn"}

-----------------------------------------------------------------------------
(* Errors.                                                                 *)

OK == "ok"
ErrLocked == "vault is locked"
ErrSecretNotFound == "secret not found"
ErrInvalidPassword == "invalid password"
ErrInvalidCurrentPassword == "invalid current password"
ErrAlreadyExists == "vault already exists"
ErrNotExist == "vault does not exist, run init first"
ErrLoadMeta == "failed to load metadata"
ErrLoadData == "failed to load vault data"
ErrSaveMeta == "failed to save metadata"
ErrSaveData == "failed to save data"
ErrDecrypt == "failed to decrypt secret"
ErrNilDeref == "panic: nil pointer dereference"

-----------------------------------------------------------------------------
(* Crypto (crypto.go).  A key is the pair it was derived from; a           *)
(* ciphertext names the key that sealed it and the plaintext, so that      *)
(* opening it under any other key fails as the AEAD tag check does.        *)

verificationMagic == "omnivault-v1"

NoKey == <<>>

\* A key buffer after every byte was set to zero.
ZeroKey == <<"", 0>>

\* A key absent from a JSON object (omitempty), or a nil map read from one.
AbsentKey == "absent"

\* Timestamp.MarshalJSON: RFC 3339, whole seconds.
FormatTime(t) == IF t = NoTime THEN NoTime ELSE t \div TicksPerSecond

\* Timestamp.UnmarshalJSON.
ParseTime(x) == IF x = NoTime THEN NoTime ELSE x * TicksPerSecond

MarshalMap(m) == IF m \in {NilMap, EmptyMap} THEN AbsentKey ELSE m

UnmarshalMap(j) == IF j = AbsentKey THEN NilMap ELSE j

\* json.Marshal that leaves out the tags.
Marshal_DropsTags(secret) ==
    [value |-> secret.value,
     fields |-> MarshalMap(secret.fields),
     tags |-> AbsentKey,
     createdAt |-> FormatTime(secret.createdAt),
     modifiedAt |-> FormatTime(secret.modifiedAt)]

\* json.Marshal(secret)
Marshal(secret) ==
    [value |-> secret.value,
     fields |-> MarshalMap(secret.fields),
     tags |-> MarshalMap(secret.tags),
     createdAt |-> FormatTime(secret.createdAt),
     modifiedAt |-> FormatTime(secret.modifiedAt)]

\* json.Unmarshal(data, &secret)
Unmarshal(doc) ==
    [value |-> doc.value,
     fields |-> UnmarshalMap(doc.fields),
     tags |-> UnmarshalMap(doc.tags),
     createdAt |-> ParseTime(doc.createdAt),
     modifiedAt |-> ParseTime(doc.modifiedAt)]

NoDoc == Marshal(NoSecret)

\* No entry of VaultData.Secrets.
NoBlob == [k |-> NoKey, p |-> NoDoc]

\* No verification blob.
NoVerification == [k |-> NoKey, p |-> ""]

\* released is what the buffer of the last key holds after Lock let go of it.
NilCrypto == [nil |-> TRUE, salt |-> 0, key |-> NoKey, released |-> NoKey]

NewCrypto(salt) ==
    [nil |-> FALSE, salt |-> salt, key |-> NoKey, released |-> NoKey]

\* A key derivation that depends on the salt alone.
DeriveKey_IgnoresPassword(c, password) == <<"", c.salt>>

DeriveKey(c, password) == <<password, c.salt>>

CryptoUnlock(c, password) == [c EXCEPT !.key = DeriveKey(c, password)]

\* Crypto.Lock that drops the key without overwriting it.
CryptoLock_DropOnly(c) ==
    IF c.key # NoKey THEN [c EXCEPT !.released = c.key, !.key = NoKey] ELSE c

CryptoLock(c) ==
    IF c.key # NoKey THEN [c EXCEPT !.released = ZeroKey, !.key = NoKey] ELSE c

IsUnlocked(c) == c.key # NoKey

Encrypt(c, plaintext) ==
    IF c.key = NoKey THEN [err |-> ErrLocked, val |-> NoBlob]
    ELSE [err |-> OK, val |-> [k |-> c.key, p |-> plaintext]]

\* Decrypt that does not authenticate the ciphertext.
Decrypt_NoAuth(c, blob) ==
    IF c.key = NoKey THEN [err |-> ErrLocked, val |-> NoDoc]
    ELSE [err |-> OK, val |-> blob.p]

Decrypt(c, blob) ==
    IF c.key = NoKey THEN [err |-> ErrLocked, val |-> NoDoc]
    ELSE IF blob.k # c.key THEN [err |-> ErrDecrypt, val |-> NoDoc]
    ELSE [err |-> OK, val |-> blob.p]

VerifyPassword(c, password, blob) ==
    /\ blob.k = DeriveKey(c, password)
    /\ blob.p = verificationMagic

CreateVerificationBlob(c) == Encrypt(c, verificationMagic)

-----------------------------------------------------------------------------
(* The store's state (part_002: EncryptedStore) and its files.             *)

NilMeta == [nil |-> TRUE, salt |-> 0, verification |-> NoVerification]

EmptySecrets == [p \in Paths |-> NoBlob]

NilData == [nil |-> TRUE, secrets |-> EmptySecrets]

AbsentMetaFile == [st |-> "absent", v |-> NilMeta]

AbsentVaultFile == [st |-> "absent", v |-> EmptySecrets]

NewEncryptedStore ==
    [crypto |-> NilCrypto, meta |-> NilMeta, data |-> NilData,
     dirty |-> FALSE, autoSave |-> TRUE,
     metaFile |-> AbsentMetaFile, vaultFile |-> AbsentVaultFile,
     rnd |-> 0, now |-> 0]

Result(s, e, v) == [st |-> s, err |-> e, val |-> v]

\* os.WriteFile on the target itself: O_TRUNC, then the bytes.
WriteFile(file, content, blank, outcome) ==
    CASE outcome = "ok" -> [st |-> "ok", v |-> content]
      [] outcome = "fail" -> file
      [] outcome = "torn" -> [st |-> "torn", v |-> blank]

VaultExists(s) == s.metaFile.st # "absent"

saveMeta(s, outcome) ==
    Result([s EXCEPT !.metaFile = WriteFile(@, s.meta, NilMeta, outcome)],
           IF outcome = "ok" THEN OK ELSE ErrSaveMeta, "")

loadMeta(s) ==
    IF s.metaFile.st = "ok"
    THEN Result([s EXCEPT !.meta = s.metaFile.v], OK, "")
    ELSE Result(s, ErrLoadMeta, "")

saveData(s, outcome) ==
    LET content == IF s.data.nil THEN EmptySecrets ELSE s.data.secrets
        written == [s EXCEPT !.vaultFile =
                                 WriteFile(@, content, EmptySecrets, outcome)]
    IN  IF outcome = "ok"
        THEN Result([written EXCEPT !.dirty = FALSE], OK, "")
        ELSE Result(written, ErrSaveData, "")

\* loadData that starts from an empty mapping whatever the file holds.
loadData_AlwaysNew(s) ==
    Result([s EXCEPT !.data = [nil |-> FALSE, secrets |-> EmptySecrets]], OK, "")

loadData(s) ==
    CASE s.vaultFile.st = "absent" ->
           Result([s EXCEPT !.data = [nil |-> FALSE, secrets |-> EmptySecrets]],
                  OK, "")
      [] s.vaultFile.st = "torn" -> Result(s, ErrLoadData, "")
      [] s.vaultFile.st = "ok" ->
           Result([s EXCEPT !.data = [nil |-> FALSE, secrets |-> s.vaultFile.v]],
                  OK, "")

isLockedUnsafe(s) == s.crypto.nil \/ ~IsUnlocked(s.crypto)

IsLocked(s) == isLockedUnsafe(s)

SecretCount(s) ==
    IF s.data.nil THEN 0
    ELSE Cardinality({p \in Paths : s.data.secrets[p] # NoBlob})


-----------------------------------------------------------------------------
(* The store's operations (part_002).  A write outcome is drawn by the     *)
(* caller for every file the operation may write.                          *)

\* Initialize without the check that the vault exists.
Initialize_Overwrites(s, password, oMeta, oData) ==
    LET crypto == CryptoUnlock(NewCrypto(s.rnd + 1), password)
        verification == CreateVerificationBlob(crypto).val
        s1 == [s EXCEPT !.rnd = @ + 1,
                        !.meta = [nil |-> FALSE, salt |-> crypto.salt,
                                  verification |-> verification],
                        !.data = [nil |-> FALSE, secrets |-> EmptySecrets],
                        !.crypto = crypto]
        m == saveMeta(s1, oMeta)
        d == saveData(m.st, oData)
    IN  IF m.err # OK THEN Result(m.st, ErrSaveMeta, "")
        ELSE IF d.err # OK THEN Result(d.st, ErrSaveData, "")
        ELSE Result(d.st, OK, "")

Initialize(s, password, oMeta, oData) ==
    IF VaultExists(s) THEN Result(s, ErrAlreadyExists, "")
    ELSE
      LET crypto == CryptoUnlock(NewCrypto(s.rnd + 1), password)
          verification == CreateVerificationBlob(crypto).val
          s1 == [s EXCEPT !.rnd = @ + 1,
                          !.meta = [nil |-> FALSE, salt |-> crypto.salt,
                                    verification |-> verification],
                          !.data = [nil |-> FALSE, secrets |-> EmptySecrets],
                          !.crypto = crypto]
          m == saveMeta(s1, oMeta)
          d == saveData(m.st, oData)
      IN  IF m.err # OK THEN Result(m.st, ErrSaveMeta, "")
          ELSE IF d.err # OK THEN Result(d.st, ErrSaveData, "")
          ELSE Result(d.st, OK, "")

\* Unlock that installs the unlocked session before it verifies the password.
Unlock_InstallBeforeVerify(s, password) ==
    IF ~VaultExists(s) THEN Result(s, ErrNotExist, "")
    ELSE
      LET m == loadMeta(s)
          crypto == NewCrypto(m.st.meta.salt)
          s2 == [m.st EXCEPT !.crypto = CryptoUnlock(crypto, password)]
          d == loadData(s2)
      IN  IF m.err # OK THEN Result(s, ErrLoadMeta, "")
          ELSE IF ~VerifyPassword(crypto, password, m.st.meta.verification)
          THEN Result(s2, ErrInvalidPassword, "")
          ELSE IF d.err # OK
          THEN Result([s2 EXCEPT !.crypto = NilCrypto], ErrLoadData, "")
          ELSE Result(d.st, OK, "")

Unlock(s, password) ==
    IF ~VaultExists(s) THEN Result(s, ErrNotExist, "")
    ELSE
      LET m == loadMeta(s)
          crypto == NewCrypto(m.st.meta.salt)
          s2 == [m.st EXCEPT !.crypto = CryptoUnlock(crypto, password)]
          d == loadData(s2)
      IN  IF m.err # OK THEN Result(s, ErrLoadMeta, "")
          ELSE IF ~VerifyPassword(crypto, password, m.st.meta.verification)
          THEN Result(m.st, ErrInvalidPassword, "")
          ELSE IF d.err # OK
          THEN Result([s2 EXCEPT !.crypto = NilCrypto], ErrLoadData, "")
          ELSE Result(d.st, OK, "")

\* The calls that Unlock(password) makes on the store s, in order, each with
\* the hold of s.mu under which it runs.  s.mu.Lock() is the first statement
\* and the deferred s.mu.Unlock() the last, so every call runs under the
\* exclusive hold; VerifyPassword and crypto.Unlock each call DeriveKey.
UnlockCalls(s, password) ==
    LET Held(call) == [call |-> call, mu |-> "exclusive"]
        m == loadMeta(s)
        crypto == NewCrypto(m.st.meta.salt)
    IN  IF ~VaultExists(s) THEN <<Held("VaultExists")>>
        ELSE IF m.err # OK THEN <<Held("VaultExists"), Held("loadMeta")>>
        ELSE IF ~VerifyPassword(crypto, password, m.st.meta.verification)
        THEN <<Held("VaultExists"), Held("loadMeta"), Held("DeriveKey")>>
        ELSE <<Held("VaultExists"), Held("loadMeta"), Held("DeriveKey"),
               Held("DeriveKey"), Held("loadData")>>

\* The calls that ChangePassword(oldPassword, newPassword) makes on the store
\* s up to its re-encryption, with the hold of s.mu: exclusive from the first
\* statement.  A nil session or nil metadata ends the call in VerifyPassword.
ChangePasswordCalls(s, oldPassword, newPassword) ==
    LET Held(call) == [call |-> call, mu |-> "exclusive"]
    IN  IF s.crypto.nil \/ s.meta.nil THEN <<>>
        ELSE IF ~VerifyPassword(s.crypto, oldPassword, s.meta.verification)
        THEN <<Held("DeriveKey")>>
        ELSE <<Held("DeriveKey"), Held("NewCrypto"), Held("DeriveKey"),
               Held("CreateVerificationBlob")>>

\* Lock that clears the session without saving what is dirty.
Lock_DropsDirty(s, oData) ==
    IF s.crypto.nil THEN Result(s, OK, "")
    ELSE Result([s EXCEPT !.crypto = NilCrypto, !.data = NilData,
                          !.dirty = FALSE], OK, "")

Lock(s, oData) ==
    IF s.crypto.nil THEN Result(s, OK, "")
    ELSE
      LET d == IF s.dirty THEN saveData(s, oData) ELSE Result(s, OK, "")
      IN  IF d.err # OK THEN Result(d.st, ErrSaveData, "")
          ELSE Result([d.st EXCEPT !.crypto = NilCrypto, !.data = NilData,
                                   !.dirty = FALSE], OK, "")

Get(s, path) ==
    IF isLockedUnsafe(s) THEN Result(s, ErrLocked, NoSecret)
    ELSE IF s.data.nil THEN Result(s, ErrNilDeref, NoSecret)
    ELSE IF s.data.secrets[path] = NoBlob
    THEN Result(s, ErrSecretNotFound, NoSecret)
    ELSE LET d == Decrypt(s.crypto, s.data.secrets[path])
         IN  IF d.err # OK THEN Result(s, ErrDecrypt, NoSecret)
             ELSE Result(s, OK, Unmarshal(d.val))

Set(s, path, secret, oData) ==
    IF isLockedUnsafe(s) THEN Result(s, ErrLocked, "")
    ELSE IF s.data.nil THEN Result(s, ErrNilDeref, "")
    ELSE
      LET stamped == [secret EXCEPT
                         !.createdAt = IF @ = NoTime THEN s.now ELSE @,
                         !.modifiedAt = s.now]
          encrypted == Encrypt(s.crypto, Marshal(stamped)).val
          s1 == [s EXCEPT !.data.secrets[path] = encrypted, !.dirty = TRUE]
      IN  IF s.autoSave THEN saveData(s1, oData) ELSE Result(s1, OK, "")

\* Delete that reports a path that is not stored.
Delete_FailsOnMissing(s, path, oData) ==
    IF isLockedUnsafe(s) THEN Result(s, ErrLocked, "")
    ELSE IF s.data.nil THEN Result(s, ErrNilDeref, "")
    ELSE IF s.data.secrets[path] = NoBlob THEN Result(s, ErrSecretNotFound, "")
    ELSE
      LET s1 == [s EXCEPT !.data.secrets[path] = NoBlob, !.dirty = TRUE]
      IN  IF s.autoSave THEN saveData(s1, oData) ELSE Result(s1, OK, "")

\* Delete with the dirty flag set before the locked check.
Delete_DirtyBeforeLockedCheck(s, path, oData) ==
    IF isLockedUnsafe(s) THEN Result([s EXCEPT !.dirty = TRUE], ErrLocked, "")
    ELSE IF s.data.nil THEN Result(s, ErrNilDeref, "")
    ELSE
      LET s1 == [s EXCEPT !.data.secrets[path] = NoBlob, !.dirty = TRUE]
      IN  IF s.autoSave THEN saveData(s1, oData) ELSE Result(s1, OK, "")

Delete(s, path, oData) ==
    IF isLockedUnsafe(s) THEN Result(s, ErrLocked, "")
    ELSE IF s.data.nil THEN Result(s, ErrNilDeref, "")
    ELSE
      LET s1 == [s EXCEPT !.data.secrets[path] = NoBlob, !.dirty = TRUE]
      IN  IF s.autoSave THEN saveData(s1, oData) ELSE Result(s1, OK, "")

Exists(s, path) ==
    IF isLockedUnsafe(s) THEN Result(s, ErrLocked, FALSE)
    ELSE IF s.data.nil THEN Result(s, ErrNilDeref, FALSE)
    ELSE Result(s, OK, s.data.secrets[path] # NoBlob)

HasPrefix(path, prefix) ==
    /\ Len(prefix) <= Len(path)
    /\ SubSeq(path, 1, Len(prefix)) = prefix

\* Byte-wise order of strings, as sort.Strings uses.
RECURSIVE StringLess(_, _)
StringLess(a, b) ==
    IF a = <<>> THEN b # <<>>
    ELSE IF b = <<>> THEN FALSE
    ELSE IF Head(a) # Head(b) THEN Head(a) < Head(b)
    ELSE StringLess(Tail(a), Tail(b))

RECURSIVE SortStrings(_)
SortStrings(S) ==
    IF S = {} THEN <<>>
    ELSE LET least == CHOOSE x \in S : \A y \in S \ {x} : StringLess(x, y)
         IN  <<least>> \o SortStrings(S \ {least})

\* List that returns every stored path, whatever the prefix.
List_IgnoresPrefix(s, prefix) ==
    IF isLockedUnsafe(s) THEN Result(s, ErrLocked, <<>>)
    ELSE IF s.data.nil THEN Result(s, ErrNilDeref, <<>>)
    ELSE Result(s, OK, SortStrings({p \in Paths : s.data.secrets[p] # NoBlob}))

List(s, prefix) ==
    IF isLockedUnsafe(s) THEN Result(s, ErrLocked, <<>>)
    ELSE IF s.data.nil THEN Result(s, ErrNilDeref, <<>>)
    ELSE Result(s, OK,
                SortStrings({p \in Paths : /\ s.data.secrets[p] # NoBlob
                                           /\ HasPrefix(p, prefix)}))

\* The body of the reply of handleSecrets: one item for each listed path
\* whose Get succeeds; a path whose Get fails is passed over.
ListResponse(s, prefix) ==
    LET items == SelectSeq(List(s, prefix).val,
                           LAMBDA path : Get(s, path).err = OK)
    IN  [secrets |-> items, count |-> Len(items)]

\* ChangePassword that writes the new metadata but keeps the old ciphertexts.
ChangePassword_NoReEncrypt(s, oldPassword, newPassword, oMeta, oData) ==
    IF s.crypto.nil \/ s.meta.nil THEN Result(s, ErrNilDeref, "")
    ELSE IF ~VerifyPassword(s.crypto, oldPassword, s.meta.verification)
    THEN Result(s, ErrInvalidCurrentPassword, "")
    ELSE
      LET newCrypto == CryptoUnlock(NewCrypto(s.rnd + 1), newPassword)
          verification == CreateVerificationBlob(newCrypto).val
          s1 == [s EXCEPT !.rnd = @ + 1,
                          !.meta.salt = newCrypto.salt,
                          !.meta.verification = verification,
                          !.crypto = newCrypto]
          m == saveMeta(s1, oMeta)
          d == saveData(m.st, oData)
      IN  IF m.err # OK THEN Result(m.st, ErrSaveMeta, "")
          ELSE IF d.err # OK THEN Result(d.st, ErrSaveData, "")
          ELSE Result(d.st, OK, "")

ChangePassword(s, oldPassword, newPassword, oMeta, oData) ==
    IF s.crypto.nil \/ s.meta.nil THEN Result(s, ErrNilDeref, "")
    ELSE IF ~VerifyPassword(s.crypto, oldPassword, s.meta.verification)
    THEN Result(s, ErrInvalidCurrentPassword, "")
    ELSE
      LET newCrypto == CryptoUnlock(NewCrypto(s.rnd + 1), newPassword)
          verification == CreateVerificationBlob(newCrypto).val
          drawn == [s EXCEPT !.rnd = @ + 1]
          stored == {p \in Paths : s.data.secrets[p] # NoBlob}
          newSecrets ==
              [p \in Paths |->
                  IF p \in stored
                  THEN Encrypt(newCrypto,
                               Decrypt(s.crypto, s.data.secrets[p]).val).val
                  ELSE NoBlob]
          s1 == [drawn EXCEPT !.meta.salt = newCrypto.salt,
                              !.meta.verification = verification,
                              !.data.secrets = newSecrets,
                              !.crypto = newCrypto]
          m == saveMeta(s1, oMeta)
          d == saveData(m.st, oData)
      IN  IF \E p \in stored : Decrypt(s.crypto, s.data.secrets[p]).err # OK
          THEN Result(drawn, ErrDecrypt, "")
          ELSE IF m.err # OK THEN Result(m.st, ErrSaveMeta, "")
          ELSE IF d.err # OK THEN Result(d.st, ErrSaveData, "")
          ELSE Result(d.st, OK, "")

-----------------------------------------------------------------------------
(* Specification Spec: a client of package store calls the operations of   *)
(* one EncryptedStore, one call at a time.                                 *)

Last(op, r, pw, new) ==
    [op |-> op, err |-> r.err, pw |-> pw, new |-> new]

\* The body of a PUT /secret/<path> request that sets nothing.
NoRequest == [value |-> "", fields |-> NilMap, tags |-> NilMap]

\* What the clients know of a path: nothing, since no request on it was
\* answered or the last one failed half-way; that it was deleted or never
\* set; or the request that set it.
Unknown == [known |-> FALSE, stored |-> FALSE, req |-> NoRequest]

Absent == [known |-> TRUE, stored |-> FALSE, req |-> NoRequest]

Stored(req) == [known |-> TRUE, stored |-> TRUE, req |-> req]

DaemonIdle ==
    /\ mu = [writer |-> 0, readers |-> {}]
    /\ timer = 0
    /\ timers = [t \in 1..MaxTimers |-> "free"]
    /\ handlers = [h \in Handlers |-> [pc |-> "idle", kind |-> ""]]
    /\ shutdown = "none"
    /\ acked = [p \in DaemonPaths |-> Unknown]

Init ==
    /\ store = NewEncryptedStore
    /\ last = [op |-> "new", err |-> OK, pw |-> "", new |-> ""]
    /\ DaemonIdle

daemonVars == <<mu, timer, timers, handlers, shutdown, acked>>

\* saveData runs only after saveMeta has succeeded: the outcome of the data
\* write is drawn only then.
DataOutcomes(oMeta) == IF oMeta = "ok" THEN WriteOutcomes ELSE {"fail"}

\* A write outcome is drawn only for a call that reaches its write.
Outcomes(writes) == IF writes THEN WriteOutcomes ELSE {"fail"}

\* Set and Delete reach saveData when the store is unlocked and auto-save on.
SavesOnChange(s) == ~isLockedUnsafe(s) /\ ~s.data.nil /\ s.autoSave

\* Lock reaches saveData when there is a session and unsaved data.
SavesOnLock(s) == ~s.crypto.nil /\ s.dirty

\* ChangePassword reaches saveMeta when the old password verifies.
SavesOnChangePassword(s, oldPassword) ==
    /\ ~s.crypto.nil
    /\ ~s.meta.nil
    /\ VerifyPassword(s.crypto, oldPassword, s.meta.verification)

Apply(op, r, pw, new) ==
    /\ store' = r.st
    /\ last' = Last(op, r, pw, new)

CallInitialize ==
    \E pw \in Passwords, oMeta \in Outcomes(~VaultExists(store)) :
        \E oData \in DataOutcomes(oMeta) :
            /\ store.rnd < MaxSalts
            /\ UNCHANGED daemonVars
            /\ Apply("init", Initialize(store, pw, oMeta, oData), "", "")

CallUnlock ==
    \E pw \in Passwords :
        /\ UNCHANGED daemonVars
        /\ Apply("unlock", Unlock(store, pw), "", "")

CallLock ==
    \E oData \in Outcomes(SavesOnLock(store)) :
        /\ UNCHANGED daemonVars
        /\ Apply("lock", Lock(store, oData), "", "")

CallGet ==
    \E path \in Paths :
        /\ UNCHANGED daemonVars
        /\ Apply("get", Get(store, path), "", "")

CallSet ==
    \E path \in Paths, secret \in Values,
       oData \in Outcomes(SavesOnChange(store)) :
        /\ UNCHANGED daemonVars
        /\ Apply("set", Set(store, path, secret, oData), "", "")

CallDelete ==
    \E path \in Paths, oData \in Outcomes(SavesOnChange(store)) :
        /\ UNCHANGED daemonVars
        /\ Apply("delete", Delete(store, path, oData), "", "")

CallExists ==
    \E path \in Paths :
        /\ UNCHANGED daemonVars
        /\ Apply("exists", Exists(store, path), "", "")

CallList ==
    \E prefix \in Prefixes :
        /\ UNCHANGED daemonVars
        /\ Apply("list", List(store, prefix), "", "")

CallChangePassword ==
    \E old \in Passwords, new \in Passwords :
        \E oMeta \in Outcomes(SavesOnChangePassword(store, old)) :
          \E oData \in DataOutcomes(oMeta) :
            /\ store.rnd < MaxSalts
            /\ UNCHANGED daemonVars
            /\ Apply("change_password",
                     ChangePassword(store, old, new, oMeta, oData), old, new)

Next ==
    \/ CallInitialize
    \/ CallUnlock
    \/ CallLock
    \/ CallGet
    \/ CallSet
    \/ CallDelete
    \/ CallExists
    \/ CallList
    \/ CallChangePassword

Spec == Init /\ [][Next]_vars

-----------------------------------------------------------------------------
(* Specification SpecSecrets: a client creates a vault and then writes,    *)
(* reads and deletes the secret of one path while the clock advances.  It  *)
(* passes secrets with fields and tags, new ones or the one it read last   *)
(* with a new value, as the Go API allows, or the secret the daemon builds *)
(* from a PUT request.                                                     *)

\* The secrets a client of the Go API passes to Set for a path: any value,
\* fields and tags, and the creation time of a new secret or the one Get
\* returned for the path.
ClientSecrets(s, path) ==
    {[value |-> v, fields |-> f, tags |-> t, createdAt |-> c,
      modifiedAt |-> NoTime] :
        v \in {"v1", "v2"}, f \in Maps, t \in Maps,
        c \in {NoTime, Get(s, path).val.createdAt}}

\* The bodies of PUT /secret/<path>.
PutRequests ==
    {[value |-> v, fields |-> f, tags |-> t] :
        v \in {"v1", "v2"}, f \in Maps, t \in Maps}

\* time.Now() moves on.
Tick ==
    /\ store.now < MaxTime
    /\ store' = [store EXCEPT !.now = @ + 1]
    /\ last' = [op |-> "tick", err |-> OK, pw |-> "", new |-> ""]
    /\ UNCHANGED daemonVars

ClientInitialize ==
    \E pw \in InitPasswords :
        /\ store.rnd < MaxSalts
        /\ UNCHANGED daemonVars
        /\ Apply("init", Initialize(store, pw, "ok", "ok"), "", "")

ClientSet ==
    \E path \in DaemonPaths :
        \E secret \in ClientSecrets(store, path) :
            /\ UNCHANGED daemonVars
            /\ Apply("set", Set(store, path, secret, "ok"), "", "")

ClientPut ==
    \E path \in DaemonPaths, req \in PutRequests :
        /\ UNCHANGED daemonVars
        /\ Apply("put", Set(store, path, SecretOf(req), "ok"), "", "")

ClientGet ==
    \E path \in DaemonPaths :
        /\ UNCHANGED daemonVars
        /\ Apply("get", Get(store, path), "", "")

ClientDelete ==
    \E path \in DaemonPaths :
        /\ UNCHANGED daemonVars
        /\ Apply("delete", Delete(store, path, "ok"), "", "")

SecretsNext ==
    \/ Tick
    \/ ClientInitialize
    \/ ClientSet
    \/ ClientPut
    \/ ClientGet
    \/ ClientDelete

SpecSecrets == Init /\ [][SecretsNext]_vars

-----------------------------------------------------------------------------
(* Properties of the store, checked under Spec.                            *)
(* Get, Exists and List return the store as they found it, so every value  *)
(* the store takes is found in the initial state or in a state that an     *)
(* Initialize, Unlock, Lock, Set, Delete or ChangePassword call has just   *)
(* produced, and again after a List call.  The properties that apply an    *)
(* operation to the store are evaluated in those states.                   *)

\* What a caller of get sees: the error and the secret.
Seen(r) == <<r.err, r.val>>

\* The password the vault's metadata file verifies: the one unlock accepts.
IsCurrentPassword(s, pw) ==
    /\ s.metaFile.st = "ok"
    /\ VerifyPassword(NewCrypto(s.metaFile.v.salt), pw,
                      s.metaFile.v.verification)

\* C1: whenever the store is Locked, get, set, delete, exists and list each
\* return the 'vault is locked' error and leave the in-memory state, the
\* dirty flag and both files as they were.
C1_LockedRejectsAll ==
    (last.op \notin {"get", "exists", "list"} /\ IsLocked(store)) =>
        /\ \A p \in Paths : Get(store, p) = Result(store, ErrLocked, NoSecret)
        /\ \A p \in Paths : Exists(store, p) = Result(store, ErrLocked, FALSE)
        /\ \A x \in Prefixes : List(store, x) = Result(store, ErrLocked, <<>>)
        /\ \A p \in Paths, v \in Values, o \in WriteOutcomes :
               Set(store, p, v, o) = Result(store, ErrLocked, "")
        /\ \A p \in Paths, o \in WriteOutcomes :
               Delete(store, p, o) = Result(store, ErrLocked, "")

\* C1 witness: a delete was refused on a vault that exists and was locked
\* while it held secrets on disk.
C1_Witness ==
    /\ IsLocked(store)
    /\ last.op = "delete"
    /\ last.err = ErrLocked
    /\ store.vaultFile.st = "ok"
    /\ store.vaultFile.v # EmptySecrets

\* C3 as stated: on an existing vault, unlock with a password that is not
\* the current one returns the invalid-password error, changes no store
\* state and leaves the store Locked.
C3_WrongPasswordLeavesLocked ==
    VaultExists(store) =>
        \A pw \in Passwords :
            ~IsCurrentPassword(store, pw) =>
                LET r == Unlock(store, pw)
                IN  /\ r.err = ErrInvalidPassword
                    /\ r.st = store
                    /\ IsLocked(r.st)

\* C3 amended: on an existing vault, unlock with a password that is not the
\* current one never opens a session.  When the metadata file is readable it
\* returns the invalid-password error and changes nothing but the in-memory
\* copy of the metadata, which is reloaded from the file; when the file
\* cannot be read it returns the load-metadata error and changes nothing.  A
\* Locked store stays Locked with no session and no key in memory; an
\* Unlocked store keeps its session.
C3_WrongPasswordChangesNoSession ==
    (last.op \notin {"get", "exists", "list"} /\ VaultExists(store)) =>
        \A pw \in Passwords :
            ~IsCurrentPassword(store, pw) =>
                LET r == Unlock(store, pw)
                IN  /\ IF store.metaFile.st = "ok"
                       THEN /\ r.err = ErrInvalidPassword
                            /\ r.st = [store EXCEPT !.meta = store.metaFile.v]
                       ELSE /\ r.err = ErrLoadMeta
                            /\ r.st = store
                    /\ r.st.crypto = store.crypto
                    /\ IsLocked(store) =>
                          (IsLocked(r.st) /\ r.st.crypto = NilCrypto)

\* C3 witness: a wrong password was refused on a locked vault holding secrets.
C3_Witness ==
    /\ last.op = "unlock"
    /\ last.err = ErrInvalidPassword
    /\ IsLocked(store)
    /\ store.vaultFile.st = "ok"
    /\ store.vaultFile.v # EmptySecrets

\* C7 as stated: no reader ever finds a partially written data or metadata
\* file, whatever write failed or was cut short.
C7_NoPartialFile ==
    /\ store.metaFile.st # "torn"
    /\ store.vaultFile.st # "torn"

\* C8 as stated: a change_password that returns an error leaves the session,
\* the in-memory metadata and secrets, the dirty flag and both files as they
\* were before the call.
C8_FailedChangeLeavesState ==
    [][(last'.op = "change_password" /\ last'.err # OK) =>
          /\ store'.crypto = store.crypto
          /\ store'.meta = store.meta
          /\ store'.data = store.data
          /\ store'.dirty = store.dirty
          /\ store'.metaFile = store.metaFile
          /\ store'.vaultFile = store.vaultFile]_vars

\* What a successful change_password to new must establish: s is the store
\* before the call, r the result of the call.  The lock that follows has
\* nothing to save, so it succeeds even when a write would fail.
ChangeKeepsSecrets(s, r, new) ==
    /\ \A p \in Paths : Seen(Get(r.st, p)) = Seen(Get(s, p))
    /\ LET l == Lock(r.st, "fail")
           u == Unlock(l.st, new)
       IN  /\ l.err = OK
           /\ u.err = OK
           /\ \A p \in Paths : Seen(Get(u.st, p)) = Seen(Get(s, p))
    /\ Unlock(r.st, new).err = OK

\* ChangePassword succeeds only when both its writes succeed.
SuccessfulChange(s, r) == SecretCount(s) > 0 /\ r.err = OK

\* C9 as stated: after a successful change_password(old, new) on a non-empty
\* vault every get returns what it returned before, also after lock and
\* unlock(new); unlock(new) succeeds and unlock(old) fails with invalid
\* password.
C9_ChangePasswordIntegrity ==
    \A old \in Passwords, new \in Passwords :
        LET r == ChangePassword(store, old, new, "ok", "ok")
        IN  SuccessfulChange(store, r) =>
                /\ ChangeKeepsSecrets(store, r, new)
                /\ Unlock(r.st, old).err = ErrInvalidPassword

\* C9 amended: as C9, but unlock(old) fails with invalid password only when
\* old and new differ; when they are equal unlock(old) succeeds.
C9_ChangePasswordIntegrityDistinct ==
    last.op \notin {"get", "exists", "list"} =>
        \A old \in Passwords, new \in Passwords :
            LET r == ChangePassword(store, old, new, "ok", "ok")
            IN  SuccessfulChange(store, r) =>
                    /\ ChangeKeepsSecrets(store, r, new)
                    /\ (old # new) =>
                          Unlock(r.st, old).err = ErrInvalidPassword
                    /\ (old = new) => Unlock(r.st, old).err = OK

\* C9 witness: a change to a different password succeeded on a vault that
\* holds a secret.
C9_Witness ==
    /\ last.op = "change_password"
    /\ last.err = OK
    /\ last.pw # last.new
    /\ SecretCount(store) > 0
    /\ store.vaultFile.v = store.data.secrets

\* C10 as stated: after a successful set or delete, lock followed by unlock
\* with the correct password gives back, for every path, what get returned
\* before the lock.
C10_LockUnlockKeepsSecrets ==
    (last.op \in {"set", "delete"} /\ last.err = OK) =>
        \A o \in WriteOutcomes, pw \in Passwords :
            LET l == Lock(store, o)
                u == Unlock(l.st, pw)
            IN  (l.err = OK /\ IsCurrentPassword(l.st, pw)) =>
                    /\ u.err = OK
                    /\ \A p \in Paths :
                          Seen(Get(u.st, p)) = Seen(Get(store, p))

\* The path begins with the bytes of the prefix.
StartsWith(path, prefix) ==
    \E n \in 0..Len(path) : path = prefix \o SubSeq(path, n + 1, Len(path))

\* a comes before b in byte-wise lexicographic order.
Before(a, b) ==
    \E k \in 0..Len(a) :
        /\ k <= Len(b)
        /\ SubSeq(a, 1, k) = SubSeq(b, 1, k)
        /\ \/ k = Len(a) /\ k < Len(b)
           \/ k < Len(a) /\ k < Len(b) /\ a[k + 1] < b[k + 1]

\* C19: on an unlocked vault List(prefix) succeeds and returns exactly the
\* stored paths that begin with the prefix (all of them for the empty
\* prefix), each once, in ascending byte-wise order.
C19_ListExact ==
    (last.op = "list" /\ ~IsLocked(store)) =>
        \A x \in Prefixes :
            LET r == List(store, x)
                stored == {p \in Paths : Exists(store, p).val /\ StartsWith(p, x)}
            IN  /\ r.err = OK
                /\ {r.val[i] : i \in 1..Len(r.val)} = stored
                /\ Len(r.val) = Cardinality(stored)
                /\ \A i, j \in 1..Len(r.val) :
                      i < j => Before(r.val[i], r.val[j])

\* C19 witness: list succeeded on a vault holding two paths, and a prefix
\* selects only one of them.
C19_Witness ==
    /\ last.op = "list"
    /\ last.err = OK
    /\ Len(List(store, <<>>).val) = 2
    /\ Len(List(store, <<1, 2>>).val) = 1

\* C20: on an unlocked vault Delete(path) succeeds when its save succeeds,
\* whether or not the path is stored; a successful Delete leaves every other
\* path's secret as it was, in memory and in what Get returns; afterwards
\* Exists(path) is false and List does not name the path; a second Delete
\* of the path succeeds and changes nothing.
C20_DeleteRemovesOnlyPath ==
    (last.op \notin {"get", "exists", "list"} /\ ~IsLocked(store)) =>
        \A p \in Paths :
            LET r == Delete(store, p, "ok")
                again == Delete(r.st, p, "ok")
            IN  /\ r.err = OK
                /\ \A q \in Paths \ {p} :
                      /\ r.st.data.secrets[q] = store.data.secrets[q]
                      /\ Get(r.st, q) = Result(r.st, Get(store, q).err,
                                               Get(store, q).val)
                      /\ Exists(r.st, q).val = Exists(store, q).val
                /\ Exists(r.st, p) = Result(r.st, OK, FALSE)
                /\ Get(r.st, p).err = ErrSecretNotFound
                /\ \A i \in 1..Len(List(r.st, <<>>).val) :
                      List(r.st, <<>>).val[i] # p
                /\ again = Result(r.st, OK, "")

\* C20 witness: a delete succeeded on an unlocked vault, one path is stored
\* and the other is not.
C20_Witness ==
    /\ last.op = "delete"
    /\ last.err = OK
    /\ ~IsLocked(store)
    /\ Len(List(store, <<>>).val) = 1
    /\ store.vaultFile.v = store.data.secrets

\* A ciphertext after a change of its bytes that is not the work of Encrypt:
\* a flipped bit, a cut, other bytes.  gcm.Open accepts it under no key.
Garbled(blob) == [blob EXCEPT !.k = <<"", -1>>]

\* The store with the ciphertext of path p in the data file replaced by c.
Tamper(s, p, c) == [s EXCEPT !.vaultFile.v[p] = c]

C24_ChangePasswordWhileLocked ==
    (VaultExists(store) /\ IsLocked(store)) =>
        \A old, new \in Passwords :
            LET r == ChangePassword(store, old, new, "ok", "ok")
            IN  /\ r.err # ErrNilDeref
                /\ r.err = ErrInvalidCurrentPassword
                      <=> ~VerifyPassword(NewCrypto(store.metaFile.v.salt),
                                          old, store.metaFile.v.verification)

\* C27 as stated: at every point, also after a failure between the metadata
\* write and the data write of init or change_password, every ciphertext in
\* the data file decrypts under the key derived from the password that the
\* verification blob of the metadata file accepts, with that file's salt.
C27_DiskConsistent ==
    (store.metaFile.st = "ok" /\ store.vaultFile.st = "ok") =>
        \A p \in Paths :
            store.vaultFile.v[p] # NoBlob =>
                \E pw \in Passwords :
                    /\ IsCurrentPassword(store, pw)
                    /\ Decrypt(CryptoUnlock(NewCrypto(store.metaFile.v.salt),
                                            pw),
                               store.vaultFile.v[p]).err = OK

\* C29 as stated: if writing the data file fails during set or delete, the
\* operation returns the save error, the in-memory mapping keeps the update
\* and the store stays dirty; the update reaches the disk with the next
\* successful save, that is the next successful mutation or lock().  The
\* next save begins in the state the failed call left, or in that state
\* after an unlock with the vault's password; it is a set or a delete of
\* another path, or lock.
C29_FailedSaveRetried ==
    LET FailedMutations ==
            {[path |-> p, r |-> Set(store, p, secret, o),
              update |-> Set(store, p, secret, "ok").st.data.secrets[p]] :
                p \in Paths, secret \in Values, o \in {"fail", "torn"}}
            \cup {[path |-> p, r |-> Delete(store, p, o), update |-> NoBlob] :
                     p \in Paths, o \in {"fail", "torn"}}
        BeforeNextSave(s) ==
            {s} \cup {Unlock(s, pw).st :
                         pw \in {q \in Passwords : Unlock(s, q).err = OK}}
        NextSaves(s, path) ==
            {Lock(s, "ok")}
            \cup {Set(s, p, secret, "ok") :
                     p \in Paths \ {path}, secret \in Values}
            \cup {Delete(s, p, "ok") : p \in Paths \ {path}}
    IN  (~IsLocked(store) /\ ~store.data.nil) =>
            \A m \in FailedMutations :
                /\ m.r.err = ErrSaveData
                /\ m.r.st.dirty
                /\ m.r.st.data.secrets[m.path] = m.update
                /\ \A b \in BeforeNextSave(m.r.st) :
                      \A n \in NextSaves(b, m.path) :
                          n.err = OK =>
                              n.st.vaultFile.v[m.path] = m.update

\* C30 as stated: unlock with the correct password on a store that is
\* already Unlocked loses no data: every secret that get returned before
\* the call, writes not yet saved included, is returned by get afterwards.
C30_UnlockWhenUnlockedKeepsData ==
    ~IsLocked(store) =>
        \A pw \in Passwords :
            LET u == Unlock(store, pw)
            IN  (IsCurrentPassword(store, pw) /\ u.err = OK) =>
                    \A p \in Paths :
                        Get(store, p).err = OK =>
                            Seen(Get(u.st, p)) = Seen(Get(store, p))

\* C31 as stated: an Initialize that returns an error leaves the store as
\* before the call: Locked, with no key, the metadata and the secrets
\* mapping in memory as they were, and both files as they were, so no
\* half-created vault on disk.
C31_FailedInitializeLeavesNothing ==
    [][(last'.op = "init" /\ last'.err # OK) =>
          (/\ IsLocked(store') = IsLocked(store)
           /\ store'.crypto = store.crypto
           /\ store'.meta = store.meta
           /\ store'.data = store.data
           /\ store'.metaFile = store.metaFile
           /\ store'.vaultFile = store.vaultFile)]_vars

\* The key buffers that hold a key when Unlock(password) on store s has
\* returned: the buffer of the session the store then has, and before it the
\* buffer of the session that Unlock replaced by s.crypto = crypto, on which
\* it does not call Lock.
KeysAfterUnlock(s, password) ==
    LET r == Unlock(s, password)
        replaced == IF r.err \in {OK, ErrLoadData} /\ IsUnlocked(s.crypto)
                    THEN <<s.crypto.key>> ELSE <<>>
        current == IF IsUnlocked(r.st.crypto)
                   THEN <<r.st.crypto.key>> ELSE <<>>
    IN  replaced \o current

\* C32 as stated: every derived key is zeroized when it stops being the
\* store's current key: after unlock, also on an already unlocked store, the
\* only key buffer that is not zero is the key of the store's session.
C32_OnlyCurrentKeyInMemory ==
    \A pw \in Passwords :
        KeysAfterUnlock(store, pw)
            = IF IsUnlocked(Unlock(store, pw).st.crypto)
              THEN <<Unlock(store, pw).st.crypto.key>> ELSE <<>>

\* C35 as stated: whenever the store is Locked, after any sequence of
\* operations, failed unlocks included, secret_count() returns 0 and the
\* store holds no secrets mapping in memory.
C35_LockedCountsNothing ==
    IsLocked(store) => (SecretCount(store) = 0 /\ store.data.nil)

\* C34 as stated: GET /secrets on an unlocked vault returns one item for
\* every stored path that matches the prefix, with count equal to the
\* number of such paths; a stored secret that cannot be decrypted is not
\* left out of the listing.
C34_ListingComplete ==
    (~IsLocked(store) /\ ~store.data.nil) =>
        \A x \in Prefixes :
            /\ ListResponse(store, x).secrets = List(store, x).val
            /\ ListResponse(store, x).count = Len(List(store, x).val)

C39_DerivationOutsideStoreLock ==
    \A pw \in Passwords, new \in Passwords :
        LET unlock == UnlockCalls(store, pw)
            change == ChangePasswordCalls(store, pw, new)
        IN  /\ \A i \in DOMAIN unlock :
                  unlock[i].call = "DeriveKey" => unlock[i].mu # "exclusive"
            /\ \A i \in DOMAIN change :
                  change[i].call = "DeriveKey" => change[i].mu # "exclusive"

\* C13: Lock on the session of the store leaves no key, and the buffer that
\* held the key holds zeros; after it every Encrypt and Decrypt returns the
\* locked error until Unlock is called again; Lock on a locked session
\* changes nothing, and Lock on a locked store succeeds and changes nothing.
C13_LockZeroizes ==
    last.op \notin {"get", "exists", "list"} =>
    /\ ~store.crypto.nil =>
          LET l == CryptoLock(store.crypto)
          IN  /\ l.key = NoKey
              /\ ~IsUnlocked(l)
              /\ IsUnlocked(store.crypto) => l.released = ZeroKey
              /\ \A v \in Values : Encrypt(l, Marshal(v)).err = ErrLocked
              /\ \A p \in Paths :
                    Decrypt(l, store.data.secrets[p]).err = ErrLocked
              /\ CryptoLock(l) = l
              /\ \A pw \in Passwords, v \in Values :
                    LET u == CryptoUnlock(l, pw)
                    IN  Decrypt(u, Encrypt(u, Marshal(v)).val).err = OK
    /\ IsLocked(store) =>
          \A o \in WriteOutcomes : Lock(store, o) = Result(store, OK, "")

\* C13 witness: lock succeeded on a vault that holds secrets and left the
\* store Locked.
C13_Witness ==
    /\ last.op = "lock"
    /\ last.err = OK
    /\ IsLocked(store)
    /\ store.vaultFile.st = "ok"
    /\ store.vaultFile.v # EmptySecrets

-----------------------------------------------------------------------------
(* Properties of secrets and their timestamps, checked under SpecSecrets.  *)

\* The entries of a map: a nil map and an empty map have none.
MapEntries(m) == IF m \in {NilMap, EmptyMap} THEN {} ELSE {m}

\* The secrets a caller may pass to Set: any value, fields, tags and
\* creation time.
AnySecrets ==
    {[value |-> v, fields |-> f, tags |-> t, createdAt |-> c,
      modifiedAt |-> NoTime] :
        v \in {"v1", "v2"}, f \in Maps, t \in Maps,
        c \in {NoTime} \cup 0..MaxTime}

\* C11: on an unlocked vault, whatever is stored, a successful set(path,
\* secret) is followed by a get(path) that succeeds and returns the value,
\* the fields and the tags of the secret just set.
C11_SetGetRoundTrip ==
    ~IsLocked(store) =>
        \A p \in Paths, secret \in AnySecrets :
            LET r == Set(store, p, secret, "ok")
                g == Get(r.st, p)
            IN  /\ r.err = OK
                /\ g.err = OK
                /\ g.val.value = secret.value
                /\ MapEntries(g.val.fields) = MapEntries(secret.fields)
                /\ MapEntries(g.val.tags) = MapEntries(secret.tags)

C11_Witness ==
    /\ last.op = "get"
    /\ last.err = OK
    /\ \E p \in DaemonPaths :
          LET g == Get(store, p).val
          IN  /\ g.value = "v2"
              /\ g.fields # NilMap
              /\ g.tags # NilMap
              /\ g.createdAt < g.modifiedAt

\* C15 as stated: a set of a path that holds a secret leaves created_at as
\* it was, and every successful set makes modified_at the time of the set.
C15_CreatedAtStable ==
    [][\A p \in Paths :
          LET before == Get(store, p)
              after == Get(store', p)
          IN  (last'.op \in {"set", "put"} /\ last'.err = OK
                 /\ before.err = OK /\ after.err = OK) =>
                  /\ after.val.createdAt = before.val.createdAt
                  /\ after.val.modifiedAt = ParseTime(FormatTime(store.now))]_vars

-----------------------------------------------------------------------------
(* The daemon (part_003: Server).  A handler goroutine holds Server.mu     *)
(* from its first step to its last; Shutdown takes no lock.  A timer is    *)
(* "armed" until it is stopped or its duration elapses and "fired" while   *)
(* its callback goroutine waits for Server.mu; "-old" marks a timer that   *)
(* was armed before the most recent resetAutoLock.  Stopping a stopped or  *)
(* expired timer does nothing, so the handle of such a timer is modelled   *)
(* as 0, like nil.                                                         *)

\* The daemon's clients call POST /init at most this many times after it
\* was not refused.
MaxInits == 1

\* The writes of the daemon succeed or fail leaving the file as it was; files
\* cut short are examined under Spec.
DaemonOutcomes == {"ok", "fail"}

TimerIds == 1..MaxTimers

\* HTTP statuses with their error codes.
StatusOK == "200"
StatusInvalidRequest == "400 INVALID_REQUEST"
StatusInvalidPassword == "401 INVALID_PASSWORD"
StatusVaultLocked == "403 VAULT_LOCKED"
StatusVaultNotFound == "404 VAULT_NOT_FOUND"
StatusSecretNotFound == "404 SECRET_NOT_FOUND"
StatusAlreadyExists == "409 ALREADY_EXISTS"
StatusInternalError == "500 INTERNAL_ERROR"

Armed == {"armed", "armed-old"}

Fired == {"fired", "fired-old"}

\* if s.autoLockTimer != nil { s.autoLockTimer.Stop() }: cancels the timer
\* unless it has fired.
Stop(tms, t) ==
    IF t # 0 /\ tms[t] \in Armed
    THEN [timer |-> 0, timers |-> [tms EXCEPT ![t] = "free"]]
    ELSE [timer |-> t, timers |-> tms]

CanArm(tms) == \E i \in TimerIds : tms[i] = "free"

\* s.autoLockTimer = time.AfterFunc(...): a new timer, stored in the handle.
AfterFunc(tms) ==
    LET id == CHOOSE i \in TimerIds :
                 /\ tms[i] = "free"
                 /\ \A j \in TimerIds : tms[j] = "free" => i <= j
        aged == [i \in TimerIds |->
                    CASE tms[i] \in Armed -> "armed-old"
                      [] tms[i] \in Fired -> "fired-old"
                      [] OTHER -> tms[i]]
    IN  [timer |-> id, timers |-> [aged EXCEPT ![id] = "armed"]]

resetAutoLock(tms, t) == AfterFunc(Stop(tms, t).timers)

Pending == {t \in TimerIds : timers[t] # "free"}

\* The listener accepts connections until http.Server.Shutdown is called.
Accepting == shutdown \in {"none", "lock"}

\* The process runs until Shutdown has returned.
Running == shutdown # "done"

MuFree == mu.writer = 0 /\ mu.readers = {}

\* The two files of the daemon: for each the pid of the process that made it,
\* 0 when the file does not exist.
\* Paths.CleanupSocket: os.Remove of the endpoint file, whoever made it.
CleanupSocket(fs) == [fs EXCEPT !.socket = 0]

\* Server.Run of the process pid, up to its select: CleanupSocket, then
\* net.Listen, which binds the socket path unless a file is there, then
\* writePIDFile.
Run(fs, pid) ==
    LET cleaned == CleanupSocket(fs)
    IN  IF cleaned.socket # 0 THEN cleaned
        ELSE [socket |-> pid, pidFile |-> pid]

\* The files of the served daemon, process 1: Run made them before the first
\* request, and the last steps of Shutdown, CleanupSocket and the removal of
\* the PID file, take them away before it returns.
Files ==
    IF Running THEN Run([socket |-> 0, pidFile |-> 0], 1)
    ELSE [CleanupSocket(Run([socket |-> 0, pidFile |-> 0], 1))
             EXCEPT !.pidFile = 0]

\* In SpecDaemon last is the reply the last step sent, NoReply when it sent
\* none.
Respond(kind, code) ==
    last' = [op |-> kind, err |-> code, pw |-> "", new |-> ""]

NoReply == last' = [op |-> "", err |-> "", pw |-> "", new |-> ""]

\* A request is served by the first goroutine that is free.
Free(h) ==
    /\ handlers[h].pc = "idle"
    /\ \A g \in Handlers : handlers[g].pc = "idle" => h <= g

Idle == [pc |-> "idle", kind |-> ""]

\* The end of a handler that holds Server.mu exclusively.
Finish(h, kind, code) ==
    /\ Respond(kind, code)
    /\ handlers' = [handlers EXCEPT ![h] = Idle]
    /\ mu' = [mu EXCEPT !.writer = 0]

\* handleInit without the length check.
InitRefusal_NoLengthCheck(s, password) ==
    IF VaultExists(s) THEN StatusAlreadyExists ELSE ""

\* The checks of handleInit before the store call: the length of the
\* password, then, under Server.mu, the existence of the vault.
InitRefusal(s, password) ==
    IF Len(password) < MinPasswordLength THEN StatusInvalidRequest
    ELSE IF VaultExists(s) THEN StatusAlreadyExists
    ELSE ""

\* handleInit for a password that is too short: the reply is sent before
\* Server.mu is taken.
InitTooShort ==
    \E pw \in InitRequests :
        /\ Running /\ Accepting
        /\ InitRefusal(store, pw) = StatusInvalidRequest
        /\ Respond("init", StatusInvalidRequest)
        /\ UNCHANGED <<store, mu, timer, timers, handlers, shutdown, acked>>

\* handleInit, handleUnlock and handleSecret up to the store call: Server.mu
\* is taken and the vault's existence or lock state is checked.
HandlerAcquire(h) ==
    \E kind \in {"init", "unlock", "get", "put", "delete"} :
      \E pw \in IF kind = "init" THEN InitRequests ELSE {""} :
        /\ Running /\ Accepting
        /\ Free(h)
        /\ MuFree
        /\ (kind = "init" /\ InitRefusal(store, pw) = "") => store.rnd < MaxInits
        /\ kind = "init" => InitRefusal(store, pw) # StatusInvalidRequest
        /\ LET refused ==
                 CASE kind = "init" -> InitRefusal(store, pw)
                   [] kind = "unlock" /\ ~VaultExists(store) -> StatusVaultNotFound
                   [] kind \in {"get", "put", "delete"} /\ IsLocked(store) ->
                          StatusVaultLocked
                   [] OTHER -> ""
           IN  IF refused # ""
               THEN /\ Respond(kind, refused)
                    /\ UNCHANGED <<mu, handlers>>
               ELSE /\ mu' = [mu EXCEPT !.writer = h]
                    /\ handlers' = [handlers EXCEPT
                                      ![h] = [pc |-> "locked", kind |-> kind]]
                    /\ NoReply
        /\ UNCHANGED <<store, timer, timers, shutdown, acked>>

\* handleLock up to the store call: Server.mu is taken, the timer stopped.
LockAcquire(h) ==
    /\ Running /\ Accepting
    /\ Free(h)
    /\ MuFree
    /\ mu' = [mu EXCEPT !.writer = h]
    /\ timer' = Stop(timers, timer).timer
    /\ timers' = Stop(timers, timer).timers
    /\ handlers' = [handlers EXCEPT ![h] = [pc |-> "locked", kind |-> "lock"]]
    /\ NoReply
    /\ UNCHANGED <<store, shutdown, acked>>

\* The outcome of a PUT or DELETE as its client learns it: the change when
\* the call succeeded, nothing known when it failed after changing the store.
Acknowledge(r, path, ack) ==
    acked' = [acked EXCEPT ![path] = IF r.err = OK THEN ack
                                     ELSE IF r.st = store THEN @
                                     ELSE Unknown]

\* The store call of a handler, and its reply when the call fails.
StoreCall(h, r, failure) ==
    /\ store' = r.st
    /\ IF r.err = OK
       THEN /\ handlers' = [handlers EXCEPT ![h].pc = "stored"]
            /\ NoReply
            /\ UNCHANGED mu
       ELSE Finish(h, handlers[h].kind, failure)
    /\ UNCHANGED <<timer, timers, shutdown>>

HandlerInit(h) ==
    \E pw \in InitRequests, oMeta \in DaemonOutcomes :
        \E oData \in DataOutcomes(oMeta) \cap DaemonOutcomes :
            /\ Running
            /\ handlers[h] = [pc |-> "locked", kind |-> "init"]
            /\ InitRefusal(store, pw) = ""
            /\ LET r == Initialize(store, pw, oMeta, oData)
               IN  /\ StoreCall(h, r, StatusInternalError)
                   /\ acked' = [p \in DaemonPaths |->
                                  IF r.err = OK THEN Absent ELSE Unknown]

HandlerUnlock(h) ==
    \E pw \in Passwords :
        /\ Running
        /\ handlers[h] = [pc |-> "locked", kind |-> "unlock"]
        /\ LET r == Unlock(store, pw)
           IN  StoreCall(h, r, IF r.err = ErrInvalidPassword
                               THEN StatusInvalidPassword
                               ELSE StatusInternalError)
        /\ UNCHANGED acked

HandlerLock(h) ==
    \E oData \in DaemonOutcomes :
        /\ Running
        /\ handlers[h] = [pc |-> "locked", kind |-> "lock"]
        /\ LET r == Lock(store, oData)
           IN  /\ store' = r.st
               /\ Finish(h, "lock", IF r.err = OK THEN StatusOK
                                    ELSE StatusInternalError)
        /\ UNCHANGED <<timer, timers, shutdown, acked>>

\* getSecret that answers every error of the store with 500.
GetFailure_Always500(err) == StatusInternalError

\* The reply of getSecret to an error of store.Get.
GetFailure(err) ==
    IF err = ErrSecretNotFound THEN StatusSecretNotFound
    ELSE StatusInternalError

\* DaemonError.IsNotFound of the client, on the reply it received.
IsNotFound(reply) == reply \in {StatusSecretNotFound, StatusVaultNotFound}

getSecret(h) ==
    \E path \in DaemonPaths :
        /\ Running
        /\ handlers[h] = [pc |-> "locked", kind |-> "get"]
        /\ LET r == Get(store, path)
           IN  StoreCall(h, r, GetFailure(r.err))
        /\ UNCHANGED acked

setSecret(h) ==
    \E path \in DaemonPaths, req \in DaemonValues, oData \in DaemonOutcomes :
        /\ Running
        /\ handlers[h] = [pc |-> "locked", kind |-> "put"]
        /\ LET r == Set(store, path, SecretOf(req), oData)
           IN  /\ StoreCall(h, r, StatusInternalError)
               /\ Acknowledge(r, path, Stored(req))

deleteSecret(h) ==
    \E path \in DaemonPaths, oData \in DaemonOutcomes :
        /\ Running
        /\ handlers[h] = [pc |-> "locked", kind |-> "delete"]
        /\ LET r == Delete(store, path, oData)
           IN  /\ StoreCall(h, r, StatusInternalError)
               /\ Acknowledge(r, path, Absent)

\* The end of a successful handler: resetAutoLock, the reply, mu released.
HandlerReset(h) ==
    /\ Running
    /\ handlers[h].pc = "stored"
    /\ CanArm(Stop(timers, timer).timers)
    /\ timer' = resetAutoLock(timers, timer).timer
    /\ timers' = resetAutoLock(timers, timer).timers
    /\ Finish(h, handlers[h].kind, StatusOK)
    /\ UNCHANGED <<store, shutdown, acked>>

\* handleSecrets holds Server.mu shared, so two of them run together.
ListAcquire(h) ==
    /\ Running /\ Accepting
    /\ Free(h)
    /\ mu.writer = 0
    /\ IF IsLocked(store)
       THEN /\ Respond("list", StatusVaultLocked)
            /\ UNCHANGED <<mu, handlers>>
       ELSE /\ mu' = [mu EXCEPT !.readers = @ \cup {h}]
            /\ handlers' = [handlers EXCEPT
                              ![h] = [pc |-> "rlocked", kind |-> "list"]]
            /\ NoReply
    /\ UNCHANGED <<store, timer, timers, shutdown, acked>>

ListRead(h) ==
    \E prefix \in Prefixes :
        /\ Running
        /\ handlers[h].pc = "rlocked"
        /\ LET r == List(store, prefix)
           IN  IF r.err = OK
               THEN /\ handlers' = [handlers EXCEPT ![h].pc = "listed"]
                    /\ NoReply
                    /\ UNCHANGED mu
               ELSE /\ Respond("list", StatusInternalError)
                    /\ handlers' = [handlers EXCEPT ![h] = Idle]
                    /\ mu' = [mu EXCEPT !.readers = @ \ {h}]
        /\ UNCHANGED <<store, timer, timers, shutdown, acked>>

\* resetAutoLock under the shared lock, first half: the old timer is stopped.
ListStop(h) ==
    /\ Running
    /\ handlers[h].pc = "listed"
    /\ timer' = Stop(timers, timer).timer
    /\ timers' = Stop(timers, timer).timers
    /\ handlers' = [handlers EXCEPT ![h].pc = "stopped"]
    /\ NoReply
    /\ UNCHANGED <<store, mu, shutdown, acked>>

\* resetAutoLock under the shared lock, second half: the new timer is armed
\* and stored in the handle; then the reply, and mu is released.
ListArm(h) ==
    /\ Running
    /\ handlers[h].pc = "stopped"
    /\ CanArm(timers)
    /\ timer' = AfterFunc(timers).timer
    /\ timers' = AfterFunc(timers).timers
    /\ Respond("list", StatusOK)
    /\ handlers' = [handlers EXCEPT ![h] = Idle]
    /\ mu' = [mu EXCEPT !.readers = @ \ {h}]
    /\ UNCHANGED <<store, shutdown, acked>>

\* The body of the reply to GET /status, as far as it depends on the store.
StatusResponse(s) ==
    [locked |-> IsLocked(s), vault_exists |-> VaultExists(s)]

\* The reply to GET /status: 200 and the body.
StatusReply(status) ==
    CASE ~status.vault_exists /\ status.locked -> "200 vault_exists=false locked=true"
      [] ~status.vault_exists /\ ~status.locked -> "200 vault_exists=false locked=false"
      [] status.vault_exists /\ status.locked -> "200 vault_exists=true locked=true"
      [] OTHER -> "200 vault_exists=true locked=false"

\* handleStatus that counts as activity and calls resetAutoLock.
handleStatus_ResetsTimer ==
    /\ Running /\ Accepting
    /\ mu.writer = 0
    /\ CanArm(Stop(timers, timer).timers)
    /\ timer' = resetAutoLock(timers, timer).timer
    /\ timers' = resetAutoLock(timers, timer).timers
    /\ Respond("status", StatusReply(StatusResponse(store)))
    /\ UNCHANGED <<store, mu, handlers, shutdown, acked>>

handleStatus ==
    /\ Running /\ Accepting
    /\ mu.writer = 0
    /\ Respond("status", StatusReply(StatusResponse(store)))
    /\ UNCHANGED <<store, mu, timer, timers, handlers, shutdown, acked>>

\* Shutdown up to the store call: the timer is stopped.
ShutdownStopTimer ==
    /\ shutdown = "none"
    /\ timer' = Stop(timers, timer).timer
    /\ timers' = Stop(timers, timer).timers
    /\ shutdown' = "lock"

\* POST /stop: the reply, then Shutdown in a goroutine of its own.
handleStop ==
    /\ Running /\ Accepting
    /\ Respond("stop", StatusOK)
    /\ ShutdownStopTimer
    /\ UNCHANGED <<store, mu, handlers, acked>>

\* Run: a signal, the context or a listener error ends the select, and
\* Shutdown is called.
Signal ==
    /\ ShutdownStopTimer
    /\ NoReply
    /\ UNCHANGED <<store, mu, handlers, acked>>

\* Shutdown that returns the error of store.Lock instead of logging it: the
\* later steps are skipped and the process ends.
ShutdownLock_ReturnsError ==
    \E oData \in DaemonOutcomes :
        /\ shutdown = "lock"
        /\ store' = Lock(store, oData).st
        /\ shutdown' = IF Lock(store, oData).err = OK THEN "http" ELSE "done"
        /\ NoReply
        /\ UNCHANGED <<mu, timer, timers, handlers, acked>>

ShutdownLock ==
    \E oData \in DaemonOutcomes :
        /\ shutdown = "lock"
        /\ store' = Lock(store, oData).st
        /\ shutdown' = "http"
        /\ NoReply
        /\ UNCHANGED <<mu, timer, timers, handlers, acked>>

\* http.Server.Shutdown returns when every connection is idle, or when its
\* five seconds are over; then Shutdown returns and the process ends.
ShutdownServer ==
    /\ shutdown = "http"
    /\ \/ \A h \in Handlers : handlers[h].pc = "idle"
       \/ \E h \in Handlers : handlers[h].pc # "idle"
    /\ shutdown' = "done"
    /\ NoReply
    /\ UNCHANGED <<store, mu, timer, timers, handlers, acked>>

TimerFire(t) ==
    /\ Running
    /\ timers[t] \in Armed
    /\ timers' = [timers EXCEPT ![t] = IF @ = "armed" THEN "fired"
                                       ELSE "fired-old"]
    /\ NoReply
    /\ UNCHANGED <<store, mu, timer, handlers, shutdown, acked>>

\* The function given to time.AfterFunc.
AutoLock(t) ==
    \E oData \in DaemonOutcomes :
        /\ Running
        /\ timers[t] \in Fired
        /\ MuFree
        /\ LET r == Lock(store, oData)
           IN  /\ store' = r.st
               /\ Respond("auto-lock", r.err)
        /\ timers' = [timers EXCEPT ![t] = "free"]
        /\ timer' = IF timer = t THEN 0 ELSE timer
        /\ UNCHANGED <<mu, handlers, shutdown, acked>>

DaemonNext ==
    \/ \E h \in Handlers :
          \/ HandlerAcquire(h)
          \/ LockAcquire(h)
          \/ HandlerInit(h)
          \/ HandlerUnlock(h)
          \/ HandlerLock(h)
          \/ getSecret(h)
          \/ setSecret(h)
          \/ deleteSecret(h)
          \/ HandlerReset(h)
          \/ ListAcquire(h)
          \/ ListRead(h)
          \/ ListStop(h)
          \/ ListArm(h)
    \/ InitTooShort
    \/ handleStatus
    \/ handleStop
    \/ Signal
    \/ ShutdownLock
    \/ ShutdownServer
    \/ \E t \in TimerIds : TimerFire(t) \/ AutoLock(t)

SpecDaemon == Init /\ [][DaemonNext]_vars

-----------------------------------------------------------------------------
(* Properties of the daemon, checked under SpecDaemon.                     *)

C40_SecondDaemonDoesNotTakeOver ==
    Running => Run(Files, 2).socket = Files.socket

\* C2 as stated: when graceful shutdown has completed, the store is Locked
\* and holds no key, whatever requests were in flight.
C2_ShutdownLeavesLocked ==
    shutdown = "done" => (IsLocked(store) /\ store.crypto.key = NoKey)

\* C25 as stated: graceful shutdown stops accepting connections before it
\* stops the timer and locks the store, so after shutdown's store.lock() no
\* request is processed, the store is not unlocked again and no new timer
\* is armed.
C25_NothingAfterShutdownLock ==
    [][(shutdown \in {"http", "done"}) =>
          (/\ \A h \in Handlers : handlers'[h] = handlers[h]
           /\ IsLocked(store) => IsLocked(store')
           /\ \A t \in TimerIds :
                 timers[t] = "free" => timers'[t] = "free")]_vars

\* C26 as stated: whenever the vault is unlocked and no request is being
\* handled, an auto-lock timer is pending: armed, or fired with its callback
\* still to run.
C26_UnlockedHasTimer ==
    (/\ shutdown = "none"
     /\ \A h \in Handlers : handlers[h].pc = "idle"
     /\ ~IsLocked(store)) =>
        \E t \in TimerIds : timers[t] \in Armed \cup Fired

\* C28 as stated: every read and write of the auto-lock timer handle, in
\* resetAutoLock, in the /lock handler and in Shutdown, happens with
\* Server.mu held exclusively by the goroutine that makes it.  Shutdown
\* touches the handle in its first step; a handler touches it when
\* handleLock stops the timer and in the steps of resetAutoLock.
C28_TimerHandleUnderMutex ==
    [][/\ ~(shutdown = "none" /\ shutdown' = "lock")
       /\ \A h \in Handlers :
             (\/ handlers[h].pc = "idle" /\ handlers'[h].kind = "lock"
              \/ /\ handlers[h].pc \in {"stored", "listed", "stopped"}
                 /\ handlers'[h].pc # handlers[h].pc) =>
                 (mu.writer = h \/ mu'.writer = h)]_vars

\* C36: GET /status and POST /lock never arm or reset the auto-lock timer,
\* and GET /status changes no store state: a status reply leaves the store,
\* the timer handle and every timer as they were, and the steps of the lock
\* handler leave each timer as it was or stopped, and the handle as it was
\* or empty.
C36_StatusAndLockArmNothing ==
    [][/\ (last'.op = "status") =>
             (store' = store /\ timer' = timer /\ timers' = timers)
       /\ \A h \in Handlers :
             (\/ handlers[h].pc = "idle" /\ handlers'[h].kind = "lock"
              \/ handlers[h].kind = "lock" /\ handlers'[h] # handlers[h]) =>
                 (/\ timer' \in {timer, 0}
                  /\ \A t \in TimerIds :
                        timers'[t] \in {timers[t], "free"})]_vars

\* C36 witness: status was polled on an unlocked vault while the timer armed
\* by the last operation was pending.
C36_Witness ==
    /\ last.op = "status"
    /\ ~IsLocked(store)
    /\ timer # 0
    /\ timers[timer] = "armed"

\* C38 as stated: concurrent readers are not serialized against each other:
\* a GET request that is inside the store's read path holds only shared
\* access, and a second GET request that arrives meanwhile is let in.
C38_ReadersShare ==
    \A h \in Handlers :
        handlers[h] = [pc |-> "locked", kind |-> "get"] =>
            /\ mu.writer = 0
            /\ \A g \in Handlers :
                  (Accepting /\ Free(g)) => ENABLED HandlerAcquire(g)

\* The callback of timer t runs in this step.
AutoLockRuns(t) == timers[t] \in Fired /\ timers'[t] = "free"

\* C4 as stated: once the auto-lock timer has fired and its callback has
\* taken Server.mu and called store.Lock, the store is Locked.
C4_AutoLockLocks ==
    [][(\E t \in TimerIds : AutoLockRuns(t)) => IsLocked(store')]_vars

\* C5 as stated: the store is never auto-locked by a timer that was armed
\* before the most recent successful operation reset the deadline.
C5_NoAutoLockByOldTimer ==
    [][\A t \in TimerIds :
          (AutoLockRuns(t) /\ ~IsLocked(store) /\ IsLocked(store')) =>
              timers[t] = "fired"]_vars

\* The kinds of request that read or write secrets.
SecretKinds == {"get", "put", "delete", "list"}

\* Handler h makes its store call in this step, on a locked store.
ServedLocked(h) ==
    /\ handlers[h].kind \in SecretKinds
    /\ handlers[h].pc \in {"locked", "rlocked"}
    /\ handlers'[h].pc # handlers[h].pc
    /\ IsLocked(store)

\* C12 as stated: a secret request whose store call finds the vault locked
\* is answered 403 VAULT_LOCKED in that step, never 500 nor a success.
C12_LockedAnswers403 ==
    [][\A h \in Handlers :
          ServedLocked(h) =>
              last' = [op |-> handlers[h].kind, err |-> StatusVaultLocked,
                       pw |-> "", new |-> ""]]_vars

\* A get, an exists and a list on store s observe what the clients know of
\* the path.
Observes(s, p, ack) ==
    LET g == Get(s, p)
        l == List(s, <<>>)
        listed == \E i \in 1..Len(l.val) : l.val[i] = p
    IN  /\ Exists(s, p) = Result(s, OK, ack.stored)
        /\ l.err = OK
        /\ listed = ack.stored
        /\ IF ack.stored
           THEN /\ g.err = OK
                /\ g.val.value = ack.req.value
                /\ MapEntries(g.val.fields) = MapEntries(ack.req.fields)
                /\ MapEntries(g.val.tags) = MapEntries(ack.req.tags)
           ELSE g.err = ErrSecretNotFound

\* C14: once a PUT or DELETE of a path was answered with success, and until
\* the next PUT, DELETE or init changes the store, every get, exists and
\* list observes it: at once while the store is unlocked, and after every
\* unlock that succeeds while it is locked.  A handler makes its store call
\* only while it holds Server.mu, exclusively for init, unlock, lock, get,
\* put and delete, so the calls of concurrent requests come one at a time.
C14_ReadsObserveAcked ==
    /\ \A p \in DaemonPaths :
          acked[p].known =>
              /\ ~IsLocked(store) => Observes(store, p, acked[p])
              /\ \A pw \in Passwords :
                    LET u == Unlock(store, pw)
                    IN  u.err = OK => Observes(u.st, p, acked[p])
    /\ \A h \in Handlers :
          /\ handlers[h].pc \in {"locked", "stored"} =>
                mu = [writer |-> h, readers |-> {}]
          /\ handlers[h].pc \in {"rlocked", "listed", "stopped"} =>
                (mu.writer = 0 /\ h \in mu.readers)

\* C14 witness: a GET was answered 200 for a path whose PUT the clients know
\* to have succeeded.
C14_Witness ==
    /\ last = [op |-> "get", err |-> StatusOK, pw |-> "", new |-> ""]
    /\ \E p \in DaemonPaths : acked[p].stored

\* C21: on an unlocked vault, Get of a path that is not stored returns
\* ErrSecretNotFound and leaves the store as it was; getSecret answers it
\* with 404 SECRET_NOT_FOUND, for which the client's IsNotFound is true.
C21_GetMissingNotFound ==
    ~IsLocked(store) =>
        \A p \in Paths :
            ~Exists(store, p).val =>
                LET r == Get(store, p)
                IN  /\ r = Result(store, ErrSecretNotFound, NoSecret)
                    /\ GetFailure(r.err) = StatusSecretNotFound
                    /\ IsNotFound(GetFailure(r.err))

\* C21 witness: GET /secret/<path> was answered 404 SECRET_NOT_FOUND on an
\* unlocked vault whose clients know that the path is not stored.
C21_Witness ==
    /\ last = [op |-> "get", err |-> StatusSecretNotFound, pw |-> "", new |-> ""]
    /\ ~IsLocked(store)
    /\ store.vaultFile.st = "ok"
    /\ \A p \in DaemonPaths : acked[p] = Absent

\* Handler h makes the store call of a request of this kind in this step.
StoreStep(h, kind) ==
    /\ handlers[h] = [pc |-> "locked", kind |-> kind]
    /\ handlers'[h] # handlers[h]

\* POST /init is answered with this code in this step.
InitAnswered(code) ==
    last' = [op |-> "init", err |-> code, pw |-> "", new |-> ""]

\* The store refuses Initialize on an existing vault and changes nothing, for
\* every password and whatever its writes would have done.
InitializeRefused(s) ==
    \A pw \in Passwords \cup InitRequests, oMeta, oData \in WriteOutcomes :
        Initialize(s, pw, oMeta, oData) = Result(s, ErrAlreadyExists, "")

\* C16 as stated: on a vault whose metadata file exists, init fails and
\* changes nothing, and POST /init is answered 409 ALREADY_EXISTS under any
\* password given.
C16_InitExistingAlways409 ==
    VaultExists(store) =>
        /\ InitializeRefused(store)
        /\ \A pw \in InitRequests :
              InitRefusal(store, pw) = StatusAlreadyExists

\* C16 amended: on a vault whose metadata file exists, Initialize fails with
\* the already-exists error and changes nothing under any password; POST
\* /init is answered 409 ALREADY_EXISTS for a password of 8 bytes or more and
\* 400 INVALID_REQUEST for a shorter one, and either reply leaves the files,
\* the session, the lock state, the secrets and the timer as they were.
C16_InitExistingRefused ==
    [][VaultExists(store) =>
          /\ \A pw \in InitRequests :
                InitRefusal(store, pw) =
                    IF Len(pw) >= MinPasswordLength THEN StatusAlreadyExists
                    ELSE StatusInvalidRequest
          /\ (InitAnswered(StatusAlreadyExists)
                \/ InitAnswered(StatusInvalidRequest)) =>
                /\ InitializeRefused(store)
                /\ UNCHANGED <<store, timer, timers>>
          /\ \A h \in Handlers : ~StoreStep(h, "init")]_vars

\* C16 witness: POST /init was answered 409 on a vault that exists, is
\* unlocked and holds a secret.
C16_Witness ==
    /\ last = [op |-> "init", err |-> StatusAlreadyExists, pw |-> "", new |-> ""]
    /\ VaultExists(store)
    /\ ~IsLocked(store)
    /\ SecretCount(store) > 0

\* C17: POST /init with a password shorter than 8 bytes is answered 400
\* INVALID_REQUEST whatever the state of the vault; the step that answers
\* leaves the store with its files, the timer, Server.mu and the other
\* handlers as they were; and the password of every session that
\* Initialize creates for a handler has 8 bytes or more.
C17_ShortPasswordRejected ==
    [][/\ \A pw \in InitRequests :
             Len(pw) < MinPasswordLength =>
                 InitRefusal(store, pw) = StatusInvalidRequest
       /\ InitAnswered(StatusInvalidRequest) =>
             UNCHANGED <<store, timer, timers, mu, handlers>>
       /\ \A h \in Handlers :
             (StoreStep(h, "init") /\ ~store'.crypto.nil) =>
                 Len(store'.crypto.key[1]) >= MinPasswordLength]_vars

\* C17 witness: POST /init was answered 400 and there is no vault: no
\* metadata file, no data file, no session, no timer.
C17_Witness ==
    /\ last = [op |-> "init", err |-> StatusInvalidRequest, pw |-> "", new |-> ""]
    /\ store.metaFile.st = "absent"
    /\ store.vaultFile.st = "absent"
    /\ store.crypto.nil
    /\ timer = 0

\* C18 as stated: GET /status reports vault_exists=false before init; after
\* a successful init it would report vault_exists=true and locked=false,
\* after /lock locked=true, and after /unlock with the correct password
\* locked=false.
C18_StatusTransitions ==
    /\ StatusReply(StatusResponse(store)) = "200 vault_exists=false locked=true"
    /\ [][/\ last'.op = "status" =>
               last'.err = StatusReply(StatusResponse(store))
          /\ \A h \in Handlers :
               /\ (StoreStep(h, "init") /\ handlers'[h].pc = "stored") =>
                     StatusResponse(store') =
                         [locked |-> FALSE, vault_exists |-> TRUE]
               /\ StoreStep(h, "lock") => StatusResponse(store').locked
               /\ (StoreStep(h, "unlock") /\ handlers'[h].pc = "stored") =>
                     ~StatusResponse(store').locked]_vars

\* C6 as stated: at most one auto-lock timer, armed or fired and waiting to
\* lock, is pending at any time.
C6_OneTimerPending == Cardinality(Pending) <= 1

=============================================================================
